---------------------------- MODULE Spec2Model ----------------------------
(***************************************************************************)
(* Recurrence and reminder engine of the Todo application.                 *)
(*                                                                         *)
(*   Phase01  in-memory console app: TaskStore, TaskService,               *)
(*            calculate_next_occurrence, complete_task                     *)
(*   Phase02  web API routes over the tasks table                          *)
(*                                                                         *)
(* A datetime is a record [year, month, day, hour, minute, second]; a      *)
(* date-only due date is a datetime at 00:00:00.  An operation that raises *)
(* is modelled by a result record [ok |-> FALSE, error |-> <exception>].   *)
(***************************************************************************)
EXTENDS Integers, Sequences, FiniteSets, TLC

VARIABLES
    calc,       \* RecurrenceCalculator harness: input and result of one call
    tasks,      \* TaskStore._tasks: key -> Task
    next_id,    \* TaskStore._next_id
    clock,      \* number of datetime.now() readings the store has stamped so far
    last,       \* the last service call: operation, arguments, outcome
    inflight,   \* caller -> the call of complete_task it is in, and where
    db          \* the tasks table of the web API: id -> row

vars == <<calc, tasks, next_id, clock, last, inflight, db>>

----------------------------------------------------------------------------
(* Proleptic Gregorian calendar, as Python's datetime computes it.         *)

MAXYEAR == 9999

\* Optional[T]: None, or Some(v)
None == [some |-> FALSE]
Some(v) == [some |-> TRUE, v |-> v]

IsLeap(y) == (y % 4 = 0) /\ ((y % 100 # 0) \/ (y % 400 = 0))

DaysInMonth(y, m) ==
    IF m = 2 THEN (IF IsLeap(y) THEN 29 ELSE 28)
    ELSE IF m \in {4, 6, 9, 11} THEN 30 ELSE 31

RECURSIVE DaysBeforeMonth(_, _)
DaysBeforeMonth(y, m) ==
    IF m = 1 THEN 0 ELSE DaysBeforeMonth(y, m - 1) + DaysInMonth(y, m - 1)

DaysBeforeYear(y) ==
    (y - 1) * 365 + ((y - 1) \div 4) - ((y - 1) \div 100) + ((y - 1) \div 400)

\* date.toordinal(): 0001-01-01 is day 1
ToOrdinal(d) == DaysBeforeYear(d.year) + DaysBeforeMonth(d.year, d.month) + d.day

MaxOrdinal == DaysBeforeYear(MAXYEAR + 1)

\* the year holding day number n: the first guess n \div 366 + 1 is never too
\* late and at most a few years short
RECURSIVE YearFrom(_, _)
YearFrom(y, n) == IF DaysBeforeYear(y + 1) >= n THEN y ELSE YearFrom(y + 1, n)

RECURSIVE MonthFrom(_, _, _)
MonthFrom(y, m, n) ==
    IF DaysBeforeMonth(y, m) + DaysInMonth(y, m) >= n THEN m
    ELSE MonthFrom(y, m + 1, n)

\* date.fromordinal(n), 1 <= n <= MaxOrdinal: [year, month, day]
FromOrdinal(n) ==
    LET y == YearFrom(((n - 1) \div 366) + 1, n)
        r == n - DaysBeforeYear(y)
        m == MonthFrom(y, 1, r)
    IN  [year |-> y, month |-> m, day |-> r - DaysBeforeMonth(y, m)]

Ok(v) == [ok |-> TRUE, value |-> v]
\* a raised exception: its class and its message
Err(e, msg) == [ok |-> FALSE, error |-> e, message |-> msg]

\* datetime(year, month, day, hour, minute): ValueError outside the calendar
MakeDatetime(y, m, d, h, mi) ==
    IF y < 1 \/ y > MAXYEAR THEN Err("ValueError", "year is out of range")
    ELSE IF m < 1 \/ m > 12 THEN Err("ValueError", "month must be in 1..12")
    ELSE IF d < 1 \/ d > DaysInMonth(y, m)
         THEN Err("ValueError", "day is out of range for month")
    ELSE Ok([year |-> y, month |-> m, day |-> d,
             hour |-> h, minute |-> mi, second |-> 0])

\* dt + timedelta(days = n): the time of day is kept, the date moves by n
\* days through its ordinal; OverflowError past datetime.max / datetime.min
PlusDays(dt, n) ==
    LET o == ToOrdinal(dt) + n
    IN  IF o < 1 \/ o > MaxOrdinal THEN Err("OverflowError", "date value out of range")
        ELSE LET ymd == FromOrdinal(o)
             IN  Ok([dt EXCEPT !.year = ymd.year, !.month = ymd.month,
                               !.day = ymd.day])

\* seconds since midnight: datetime.time() of a datetime at whole seconds
SecondOfDay(dt) == dt.hour * 3600 + dt.minute * 60 + dt.second

\* dt + timedelta(seconds = n)
PlusSeconds(dt, n) ==
    LET total == SecondOfDay(dt) + n
        rest == total % 86400
        day == PlusDays(dt, total \div 86400)
    IN  IF ~day.ok THEN day
        ELSE Ok([day.value EXCEPT !.hour = rest \div 3600,
                                  !.minute = (rest % 3600) \div 60,
                                  !.second = rest % 60])

\* a < b on datetimes
Before(a, b) ==
    \/ ToOrdinal(a) < ToOrdinal(b)
    \/ ToOrdinal(a) = ToOrdinal(b) /\ SecondOfDay(a) < SecondOfDay(b)

----------------------------------------------------------------------------
(* Recurrence enum and RecurrenceCalculator (Phase01 task_service.py).     *)

Recurrences == {"NONE", "DAILY", "WEEKLY", "MONTHLY"}

Min(a, b) == IF a <= b THEN a ELSE b

\* the MONTHLY branch of calculate_next_occurrence
next_monthly(due_date) ==
    LET month0 == due_date.month + 1
        year   == IF month0 > 12 THEN due_date.year + 1 ELSE due_date.year
        month  == IF month0 > 12 THEN 1 ELSE month0
        first_of_following_month ==
            IF month = 12 THEN MakeDatetime(year + 1, 1, 1, 0, 0)
                          ELSE MakeDatetime(year, month + 1, 1, 0, 0)
    IN  IF ~first_of_following_month.ok THEN first_of_following_month
        ELSE LET before   == PlusDays(first_of_following_month.value, -1)
                 last_day == before.value.day
                 is_last_day_of_feb == due_date.month = 2 /\ due_date.day = 29
                 target_is_february == month = 2
                 target_day ==
                     IF is_last_day_of_feb /\ target_is_february
                     THEN last_day
                     ELSE Min(due_date.day, last_day)
             IN  MakeDatetime(year, month, target_day,
                              due_date.hour, due_date.minute)

\* calculate_next_occurrence with the weekly step written as timedelta(days=1)
calculate_next_occurrence_weekly_one_day(due_date, recurrence) ==
    IF recurrence = "NONE"
    THEN Err("ValueError", "Cannot calculate next occurrence for non-recurring task")
    ELSE IF recurrence \in {"DAILY", "WEEKLY"} THEN PlusDays(due_date, 1)
    ELSE IF recurrence = "MONTHLY" THEN next_monthly(due_date)
    ELSE Err("ValueError", "Invalid recurrence value")

calculate_next_occurrence(due_date, recurrence) ==
    IF recurrence = "NONE"
    THEN Err("ValueError", "Cannot calculate next occurrence for non-recurring task")
    ELSE IF recurrence = "DAILY" THEN PlusDays(due_date, 1)
    ELSE IF recurrence = "WEEKLY" THEN PlusDays(due_date, 7)
    ELSE IF recurrence = "MONTHLY" THEN next_monthly(due_date)
    ELSE Err("ValueError", "Invalid recurrence value")

----------------------------------------------------------------------------
(* Strings: a text of n characters between pad whitespace characters;      *)
(* upper says whether it has upper-case letters.                           *)

Str(body, n, pad, upper) == [body |-> body, n |-> n, pad |-> pad, upper |-> upper]
strip(s) == [s EXCEPT !.pad = 0]
lower(s) == [s EXCEPT !.upper = FALSE]
len(s) == s.n + s.pad

TitleMax == 100
DescriptionMax == 500
TagMax == 20

----------------------------------------------------------------------------
(* TaskStore (Phase01 storage/task_store.py).  A store value is            *)
(* [tasks, next_id, clock]; every operation returns the store after it and *)
(* what it returned or raised.                                             *)

Raise(st, e, msg) == [st |-> st, result |-> Err(e, msg)]
Return(st, v) == [st |-> st, result |-> Ok(v)]

\* the fields of Task beyond id/title/description/completed/created_at/
\* updated_at, stored as the service passes them
extended_fields(f) ==
    [priority |-> f.priority, tags |-> f.tags,
     due_date |-> f.due_date, recurrence |-> f.recurrence]

store_get(st, task_id) ==
    IF task_id \in DOMAIN st.tasks THEN Ok(st.tasks[task_id])
    ELSE Err("TaskNotFoundError", "Task not found")

\* self._tasks[key] = task
Put(ts, key, task) ==
    [k \in DOMAIN ts \cup {key} |-> IF k = key THEN task ELSE ts[k]]

\* add handing out the same id again: _next_id is not advanced
store_add_id_reused(st, f) ==
    IF len(f.title) = 0 THEN Raise(st, "ValueError", "Task title cannot be empty")
    ELSE IF len(f.title) > TitleMax
         THEN Raise(st, "ValueError", "Task title cannot exceed 100 characters")
    ELSE IF len(f.description) > DescriptionMax
         THEN Raise(st, "ValueError", "Task description cannot exceed 500 characters")
    ELSE LET task_id == st.next_id
             task == [id |-> task_id, title |-> f.title,
                      description |-> f.description, completed |-> FALSE,
                      created_at |-> st.clock, updated_at |-> None]
                     @@ extended_fields(f)
         IN  Return([tasks |-> Put(st.tasks, task_id, task),
                     next_id |-> st.next_id,
                     clock |-> st.clock + 1], task)

store_add(st, f) ==
    IF len(f.title) = 0 THEN Raise(st, "ValueError", "Task title cannot be empty")
    ELSE IF len(f.title) > TitleMax
         THEN Raise(st, "ValueError", "Task title cannot exceed 100 characters")
    ELSE IF len(f.description) > DescriptionMax
         THEN Raise(st, "ValueError", "Task description cannot exceed 500 characters")
    ELSE LET task_id == st.next_id
             task == [id |-> task_id, title |-> f.title,
                      description |-> f.description, completed |-> FALSE,
                      created_at |-> st.clock, updated_at |-> None]
                     @@ extended_fields(f)
         IN  Return([tasks |-> Put(st.tasks, task_id, task),
                     next_id |-> st.next_id + 1,
                     clock |-> st.clock + 1], task)

\* the extended fields of a partial update: a field given as None is kept
update_extended_fields(task, u) ==
    [task EXCEPT
       !.priority   = IF u.priority.some THEN u.priority.v ELSE @,
       !.tags       = IF u.tags.some THEN u.tags.v ELSE @,
       !.due_date   = IF u.due_date.some THEN u.due_date ELSE @,
       !.recurrence = IF u.recurrence.some THEN u.recurrence.v ELSE @]

\* update assigning completed without the test for None
store_update_completed_reset(st, task_id, u) ==
    LET got == store_get(st, task_id)
    IN  IF ~got.ok THEN [st |-> st, result |-> got]
        ELSE IF u.title.some /\ len(u.title.v) = 0
             THEN Raise(st, "ValueError", "Task title cannot be empty")
        ELSE IF u.title.some /\ len(u.title.v) > TitleMax
             THEN Raise(st, "ValueError", "Task title cannot exceed 100 characters")
        ELSE
          LET t1 == IF u.title.some THEN [got.value EXCEPT !.title = u.title.v]
                    ELSE got.value
          IN  IF u.description.some /\ len(u.description.v) > DescriptionMax
              THEN \* task.title is already assigned when this raises
                   Raise([st EXCEPT !.tasks = Put(st.tasks, task_id, t1)],
                         "ValueError", "Task description cannot exceed 500 characters")
              ELSE
                LET t2 == IF u.description.some
                          THEN [t1 EXCEPT !.description = u.description.v] ELSE t1
                    t3 == [t2 EXCEPT !.completed = u.completed.some /\ u.completed.v]
                    t4 == update_extended_fields(t3, u)
                    t5 == [t4 EXCEPT !.updated_at = Some(st.clock)]
                IN  Return([st EXCEPT !.tasks = Put(st.tasks, task_id, t5),
                                      !.clock = st.clock + 1], t5)

store_update(st, task_id, u) ==
    LET got == store_get(st, task_id)
    IN  IF ~got.ok THEN [st |-> st, result |-> got]
        ELSE IF u.title.some /\ len(u.title.v) = 0
             THEN Raise(st, "ValueError", "Task title cannot be empty")
        ELSE IF u.title.some /\ len(u.title.v) > TitleMax
             THEN Raise(st, "ValueError", "Task title cannot exceed 100 characters")
        ELSE
          LET t1 == IF u.title.some THEN [got.value EXCEPT !.title = u.title.v]
                    ELSE got.value
          IN  IF u.description.some /\ len(u.description.v) > DescriptionMax
              THEN \* task.title is already assigned when this raises
                   Raise([st EXCEPT !.tasks = Put(st.tasks, task_id, t1)],
                         "ValueError", "Task description cannot exceed 500 characters")
              ELSE
                LET t2 == IF u.description.some
                          THEN [t1 EXCEPT !.description = u.description.v] ELSE t1
                    t3 == IF u.completed.some
                          THEN [t2 EXCEPT !.completed = u.completed.v] ELSE t2
                    t4 == update_extended_fields(t3, u)
                    t5 == [t4 EXCEPT !.updated_at = Some(st.clock)]
                IN  Return([st EXCEPT !.tasks = Put(st.tasks, task_id, t5),
                                      !.clock = st.clock + 1], t5)

\* sorted(self._tasks.values(), key = created_at): the sort is stable and
\* the dictionary iterates in insertion order
RECURSIVE SortedByCreation(_)
SortedByCreation(ts) ==
    IF DOMAIN ts = {} THEN << >>
    ELSE LET k == CHOOSE k \in DOMAIN ts :
                    \A j \in DOMAIN ts :
                        \/ ts[k].created_at < ts[j].created_at
                        \/ ts[k].created_at = ts[j].created_at /\ k <= j
         IN  <<ts[k]>> \o SortedByCreation([j \in DOMAIN ts \ {k} |-> ts[j]])

store_get_all(st) == SortedByCreation(st.tasks)

\* _reindex leaving _next_id at the number of tasks
store_reindex_next_id_short(st) ==
    IF DOMAIN st.tasks = {} THEN [st EXCEPT !.next_id = 1]
    ELSE LET sorted_tasks == store_get_all(st)
         IN  [st EXCEPT
                !.tasks = [index \in 1..Len(sorted_tasks) |->
                              [sorted_tasks[index] EXCEPT !.id = index]],
                !.next_id = Len(sorted_tasks)]

store_reindex(st) ==
    IF DOMAIN st.tasks = {} THEN [st EXCEPT !.next_id = 1]
    ELSE LET sorted_tasks == store_get_all(st)
         IN  [st EXCEPT
                !.tasks = [index \in 1..Len(sorted_tasks) |->
                              [sorted_tasks[index] EXCEPT !.id = index]],
                !.next_id = Len(sorted_tasks) + 1]

store_delete(st, task_id) ==
    IF task_id \notin DOMAIN st.tasks
    THEN Raise(st, "TaskNotFoundError", "Task not found")
    ELSE Return(store_reindex(
                  [st EXCEPT !.tasks = [k \in DOMAIN st.tasks \ {task_id} |-> st.tasks[k]]]),
                TRUE)

\* toggle setting the flag instead of flipping it
store_toggle_sets_true(st, task_id) ==
    LET got == store_get(st, task_id)
    IN  IF ~got.ok THEN [st |-> st, result |-> got]
        ELSE LET task == [got.value EXCEPT !.completed = TRUE,
                                           !.updated_at = Some(st.clock)]
             IN  Return([st EXCEPT !.tasks = Put(st.tasks, task_id, task),
                                   !.clock = st.clock + 1], task)

store_toggle(st, task_id) ==
    LET got == store_get(st, task_id)
    IN  IF ~got.ok THEN [st |-> st, result |-> got]
        ELSE LET task == [got.value EXCEPT !.completed = ~@,
                                           !.updated_at = Some(st.clock)]
             IN  Return([st EXCEPT !.tasks = Put(st.tasks, task_id, task),
                                   !.clock = st.clock + 1], task)

\* mark_complete flipping the flag as toggle does
store_mark_complete_flips(st, task_id) ==
    LET got == store_get(st, task_id)
    IN  IF ~got.ok THEN [st |-> st, result |-> got]
        ELSE LET task == [got.value EXCEPT !.completed = ~@,
                                           !.updated_at = Some(st.clock)]
             IN  Return([st EXCEPT !.tasks = Put(st.tasks, task_id, task),
                                   !.clock = st.clock + 1], task)

store_mark_complete(st, task_id) ==
    LET got == store_get(st, task_id)
    IN  IF ~got.ok THEN [st |-> st, result |-> got]
        ELSE LET task == [got.value EXCEPT !.completed = TRUE,
                                           !.updated_at = Some(st.clock)]
             IN  Return([st EXCEPT !.tasks = Put(st.tasks, task_id, task),
                                   !.clock = st.clock + 1], task)

store_mark_incomplete(st, task_id) ==
    LET got == store_get(st, task_id)
    IN  IF ~got.ok THEN [st |-> st, result |-> got]
        ELSE LET task == [got.value EXCEPT !.completed = FALSE,
                                           !.updated_at = Some(st.clock)]
             IN  Return([st EXCEPT !.tasks = Put(st.tasks, task_id, task),
                                   !.clock = st.clock + 1], task)

store_clear(st) ==
    Return([st EXCEPT !.tasks = << >>, !.next_id = 1], Cardinality(DOMAIN st.tasks))

----------------------------------------------------------------------------
(* TaskService and complete_task (Phase01 services/task_service.py).       *)

\* _validate_and_process_tags: strip and lower each tag, drop the empty ones
validate_and_process_tags(tags) ==
    LET clean == {lower(strip(tag)) : tag \in tags}
        kept  == {c \in clean : len(c) > 0}
    IN  IF \E c \in kept : len(c) > TagMax
        THEN Err("ValidationError", "Tag exceeds 20 characters")
        ELSE Ok(kept)

add_task_with_recurrence(st, a) ==
    LET title == strip(a.title)
        description == strip(a.description)
        processed_tags == validate_and_process_tags(a.tags)
    IN  IF len(title) = 0 THEN Raise(st, "ValidationError", "Title is required")
        ELSE IF len(title) > TitleMax
             THEN Raise(st, "ValidationError", "Title cannot exceed 100 characters")
        ELSE IF len(description) > DescriptionMax
             THEN Raise(st, "ValidationError", "Description cannot exceed 500 characters")
        ELSE IF a.recurrence # "NONE" /\ ~a.due_date.some
             THEN Raise(st, "ValidationError", "Recurring tasks must have a due date")
        ELSE IF ~processed_tags.ok THEN [st |-> st, result |-> processed_tags]
        ELSE store_add(st, [title |-> title, description |-> description,
                            priority |-> a.priority, tags |-> processed_tags.value,
                            due_date |-> a.due_date, recurrence |-> a.recurrence])

\* update_task_with_recurrence looking for a due date in the update only
\* when the task has none, and then accepting the update anyway
update_task_with_recurrence_unchecked(st, task_id, u) ==
    LET title == IF u.title.some THEN Some(strip(u.title.v)) ELSE None
        description == IF u.description.some THEN Some(strip(u.description.v)) ELSE None
        processed_tags == IF u.tags.some THEN validate_and_process_tags(u.tags.v)
                          ELSE Ok({})
    IN  IF task_id <= 0 THEN Raise(st, "ValidationError", "Invalid task ID")
        ELSE IF title.some /\ len(title.v) = 0
             THEN Raise(st, "ValidationError", "Title cannot be empty")
        ELSE IF title.some /\ len(title.v) > TitleMax
             THEN Raise(st, "ValidationError", "Title cannot exceed 100 characters")
        ELSE IF description.some /\ len(description.v) > DescriptionMax
             THEN Raise(st, "ValidationError", "Description cannot exceed 500 characters")
        ELSE IF ~processed_tags.ok THEN [st |-> st, result |-> processed_tags]
        ELSE store_update(st, task_id,
                 [u EXCEPT !.title = title, !.description = description,
                           !.tags = IF u.tags.some THEN Some(processed_tags.value)
                                    ELSE None])

update_task_with_recurrence(st, task_id, u) ==
    LET title == IF u.title.some THEN Some(strip(u.title.v)) ELSE None
        description == IF u.description.some THEN Some(strip(u.description.v)) ELSE None
        existing_task == store_get(st, task_id)
        processed_tags == IF u.tags.some THEN validate_and_process_tags(u.tags.v)
                          ELSE Ok({})
    IN  IF task_id <= 0 THEN Raise(st, "ValidationError", "Invalid task ID")
        ELSE IF title.some /\ len(title.v) = 0
             THEN Raise(st, "ValidationError", "Title cannot be empty")
        ELSE IF title.some /\ len(title.v) > TitleMax
             THEN Raise(st, "ValidationError", "Title cannot exceed 100 characters")
        ELSE IF description.some /\ len(description.v) > DescriptionMax
             THEN Raise(st, "ValidationError", "Description cannot exceed 500 characters")
        ELSE IF u.recurrence.some /\ u.recurrence.v # "NONE" /\ ~u.due_date.some
                /\ ~existing_task.ok
             THEN [st |-> st, result |-> existing_task]
        ELSE IF u.recurrence.some /\ u.recurrence.v # "NONE" /\ ~u.due_date.some
                /\ ~existing_task.value.due_date.some
             THEN Raise(st, "ValidationError", "Recurring tasks must have a due date")
        ELSE IF ~processed_tags.ok THEN [st |-> st, result |-> processed_tags]
        ELSE store_update(st, task_id,
                 [u EXCEPT !.title = title, !.description = description,
                           !.tags = IF u.tags.some THEN Some(processed_tags.value)
                                    ELSE None])

delete_task(st, task_id) ==
    IF task_id <= 0 THEN Raise(st, "ValidationError", "Invalid task ID")
    ELSE store_delete(st, task_id)

toggle_task_completion(st, task_id) ==
    IF task_id <= 0 THEN Raise(st, "ValidationError", "Invalid task ID")
    ELSE store_toggle(st, task_id)

\* complete_task cloning the task with the due date it already has
complete_task_same_due_date(st, task_id) ==
    LET got == store_get(st, task_id)
        marked == store_mark_complete(st, task_id)
        task == marked.result.value
        next_due == calculate_next_occurrence(task.due_date.v, task.recurrence)
        added == store_add(marked.st,
                     [title |-> task.title, description |-> task.description,
                      priority |-> task.priority, tags |-> task.tags,
                      due_date |-> task.due_date,
                      recurrence |-> task.recurrence])
    IN  IF ~got.ok THEN [st |-> st, result |-> got]
        ELSE IF task.recurrence # "NONE" /\ task.due_date.some
             THEN IF ~next_due.ok THEN [st |-> marked.st, result |-> next_due]
                  ELSE IF ~added.result.ok THEN added
                  ELSE Return(added.st,
                              [completed_task |-> task,
                               new_task |-> Some(added.result.value)])
             ELSE Return(marked.st, [completed_task |-> task, new_task |-> None])

\* complete_task asking for the next occurrence of every task that has a due
\* date, without looking at its rule
complete_task_any_rule(st, task_id) ==
    LET got == store_get(st, task_id)
        marked == store_mark_complete(st, task_id)
        task == marked.result.value
        next_due == calculate_next_occurrence(task.due_date.v, task.recurrence)
        added == store_add(marked.st,
                     [title |-> task.title, description |-> task.description,
                      priority |-> task.priority, tags |-> task.tags,
                      due_date |-> Some(next_due.value),
                      recurrence |-> task.recurrence])
    IN  IF ~got.ok THEN [st |-> st, result |-> got]
        ELSE IF task.due_date.some
             THEN IF ~next_due.ok THEN [st |-> marked.st, result |-> next_due]
                  ELSE IF ~added.result.ok THEN added
                  ELSE Return(added.st,
                              [completed_task |-> task,
                               new_task |-> Some(added.result.value)])
             ELSE Return(marked.st, [completed_task |-> task, new_task |-> None])

\* complete_task returns the pair (completed_task, new_task)
\* complete_task rescheduling the task in place instead of adding a successor
complete_task_in_place(st, task_id) ==
    LET got == store_get(st, task_id)
        marked == store_mark_complete(st, task_id)
        task == marked.result.value
        next_due == calculate_next_occurrence(task.due_date.v, task.recurrence)
        moved == [task EXCEPT !.due_date = Some(next_due.value)]
    IN  IF ~got.ok THEN [st |-> st, result |-> got]
        ELSE IF task.recurrence # "NONE" /\ task.due_date.some
             THEN IF ~next_due.ok
                  THEN [st |-> marked.st, result |-> next_due]
                  ELSE Return([marked.st EXCEPT
                                  !.tasks = Put(marked.st.tasks, task_id, moved)],
                              [completed_task |-> moved, new_task |-> None])
             ELSE Return(marked.st, [completed_task |-> task, new_task |-> None])

complete_task(st, task_id) ==
    LET got == store_get(st, task_id)
        marked == store_mark_complete(st, task_id)
        \* task and completed_task are the same object, read after the marking
        task == marked.result.value
        next_due == calculate_next_occurrence(task.due_date.v, task.recurrence)
        added == store_add(marked.st,
                     [title |-> task.title, description |-> task.description,
                      priority |-> task.priority, tags |-> task.tags,
                      due_date |-> Some(next_due.value),
                      recurrence |-> task.recurrence])
    IN  IF ~got.ok THEN [st |-> st, result |-> got]
        ELSE IF task.recurrence # "NONE" /\ task.due_date.some
             THEN IF ~next_due.ok
                  THEN \* raised after store.mark_complete has run
                       [st |-> marked.st, result |-> next_due]
                  ELSE IF ~added.result.ok THEN added
                  ELSE Return(added.st,
                              [completed_task |-> task,
                               new_task |-> Some(added.result.value)])
             ELSE Return(marked.st, [completed_task |-> task, new_task |-> None])

\* the loop body of check_reminders with `due_date < now` written `<=`
reminder_lists_now_is_overdue(task, now, soon_threshold) ==
    IF task.completed THEN {}
    ELSE IF ~task.due_date.some THEN {}
    ELSE IF SecondOfDay(task.due_date.v) = 0 THEN {}
    ELSE IF ~Before(now, task.due_date.v) THEN {"overdue"}
    ELSE IF Before(task.due_date.v, soon_threshold) THEN {"due_soon"}
    ELSE {}

\* the loop body without the skip of date-only due dates
reminder_lists_midnight_kept(task, now, soon_threshold) ==
    IF task.completed THEN {}
    ELSE IF ~task.due_date.some THEN {}
    ELSE IF Before(task.due_date.v, now) THEN {"overdue"}
    ELSE IF Before(task.due_date.v, soon_threshold) THEN {"due_soon"}
    ELSE {}

\* the loop body without the skip of completed tasks
reminder_lists_completed_kept(task, now, soon_threshold) ==
    IF ~task.due_date.some THEN {}
    ELSE IF SecondOfDay(task.due_date.v) = 0 THEN {}
    ELSE IF Before(task.due_date.v, now) THEN {"overdue"}
    ELSE IF Before(task.due_date.v, soon_threshold) THEN {"due_soon"}
    ELSE {}

\* the loop body with two separate ifs, the first `due_date <= now`
reminder_lists_two_ifs(task, now, soon_threshold) ==
    IF task.completed THEN {}
    ELSE IF ~task.due_date.some THEN {}
    ELSE IF SecondOfDay(task.due_date.v) = 0 THEN {}
    ELSE (IF ~Before(now, task.due_date.v) THEN {"overdue"} ELSE {})
         \cup (IF ~Before(task.due_date.v, now)
                  /\ Before(task.due_date.v, soon_threshold)
               THEN {"due_soon"} ELSE {})

\* the loop body of check_reminders: the lists the task is appended to
reminder_lists(task, now, soon_threshold) ==
    IF task.completed THEN {}
    ELSE IF ~task.due_date.some THEN {}
    ELSE IF SecondOfDay(task.due_date.v) = 0 THEN {}
    ELSE IF Before(task.due_date.v, now) THEN {"overdue"}
    ELSE IF ~Before(task.due_date.v, now) /\ Before(task.due_date.v, soon_threshold)
         THEN {"due_soon"}
    ELSE {}

\* check_reminders, with now the reading of datetime.now() it takes
check_reminders(st, now) ==
    LET soon_threshold == PlusSeconds(now, 60 * 60)
        all_tasks == store_get_all(st)
        Overdue(task) == "overdue" \in reminder_lists(task, now, soon_threshold.value)
        DueSoon(task) == "due_soon" \in reminder_lists(task, now, soon_threshold.value)
        overdue_tasks == SelectSeq(all_tasks, Overdue)
        due_soon_tasks == SelectSeq(all_tasks, DueSoon)
    IN  IF ~soon_threshold.ok THEN [st |-> st, result |-> soon_threshold]
        ELSE Return(st, [overdue_tasks |-> overdue_tasks,
                         due_soon_tasks |-> due_soon_tasks,
                         overdue_count |-> Len(overdue_tasks),
                         due_soon_count |-> Len(due_soon_tasks)])

get_task(st, task_id) ==
    IF task_id <= 0 THEN Err("ValidationError", "Invalid task ID")
    ELSE store_get(st, task_id)

\* what a handler of the command line prints: the status line, the new
\* instance it announces, and the reminders it shows
Printed(status, new_task, reminders) ==
    [status |-> status, new_task |-> new_task, reminders |-> reminders]

\* handle_toggle_task of the menu: complete_task when the task is being
\* completed and recurs, toggle_task_completion otherwise; an exception is
\* caught and printed
handle_toggle_task(st, task_id) ==
    LET task == get_task(st, task_id)
        is_completing == ~task.value.completed
        is_recurring == task.value.recurrence # "NONE" /\ task.value.due_date.some
        done == complete_task(st, task_id)
        toggled == toggle_task_completion(st, task_id)
    IN  IF ~task.ok THEN [st |-> st, result |-> task]
        ELSE IF is_completing /\ is_recurring
             THEN IF ~done.result.ok THEN done
                  ELSE Return(done.st,
                              Printed("complete", done.result.value.new_task, None))
        ELSE IF ~toggled.result.ok THEN toggled
        ELSE Return(toggled.st,
                    Printed(IF toggled.result.value.completed THEN "complete"
                            ELSE "incomplete", None, None))

\* the `toggle` command of main.py: complete_task, then the reminders, with
\* now the reading of datetime.now() that check_reminders takes; an
\* exception is caught and printed
toggle_task(st, task_id, now) ==
    LET done == complete_task(st, task_id)
        reminder_result == check_reminders(done.st, now)
    IN  IF ~done.result.ok THEN done
        ELSE IF ~reminder_result.result.ok THEN reminder_result
        ELSE Return(reminder_result.st,
                    Printed(IF done.result.value.completed_task.completed
                            THEN "complete" ELSE "incomplete",
                            done.result.value.new_task,
                            Some(reminder_result.result.value)))

----------------------------------------------------------------------------
(* The console application: one action per service call.                   *)

\* datetime.now() readings in one run; every task takes one when it is created
MaxClock == 3

TStandup == Str("standup", 7, 0, FALSE)
TReview  == Str("review", 6, 1, FALSE)
TBlank   == Str("", 0, 2, FALSE)
TLong    == Str("long", TitleMax + 1, 0, FALSE)
DEmpty   == Str("", 0, 0, FALSE)
DNotes   == Str("notes", 5, 1, FALSE)
DLong    == Str("long", DescriptionMax + 1, 0, FALSE)
GWork    == Str("Work", 4, 1, TRUE)
GLong    == Str("long", TagMax + 1, 0, FALSE)

Datetime(y, m, d, h, mi, sec) ==
    [year |-> y, month |-> m, day |-> d, hour |-> h, minute |-> mi, second |-> sec]

\* a timed due date at a month end, and a date-only one on the last day
\* datetime can hold
DueTimed == Datetime(2025, 1, 31, 9, 30, 0)
DueLast  == Datetime(MAXYEAR, 12, 31, 0, 0, 0)

AddInput(t, d, p, g, due, r) ==
    [title |-> t, description |-> d, priority |-> p, tags |-> g,
     due_date |-> due, recurrence |-> r]

AddInputs ==
    {AddInput(TStandup, DEmpty, "NONE", {}, None, r) : r \in {"NONE", "DAILY"}}
    \cup {AddInput(TStandup, DEmpty, "NONE", {}, Some(DueTimed), r) :
             r \in {"NONE", "DAILY", "MONTHLY"}}
    \cup {AddInput(TStandup, DEmpty, "NONE", {}, Some(DueLast), "DAILY"),
          AddInput(TReview, DNotes, "HIGH", {GWork}, Some(DueTimed), "WEEKLY"),
          AddInput(TBlank, DEmpty, "NONE", {}, None, "NONE")}

NoUpdate ==
    [title |-> None, description |-> None, completed |-> None, priority |-> None,
     tags |-> None, due_date |-> None, recurrence |-> None]

UpdateInputs ==
    {[NoUpdate EXCEPT !.title = Some(t)] : t \in {TReview, TBlank}}
    \cup {[NoUpdate EXCEPT !.completed = Some(TRUE)],
          [NoUpdate EXCEPT !.description = Some(DNotes), !.priority = Some("HIGH"),
                           !.tags = Some({GWork})],
          [NoUpdate EXCEPT !.due_date = Some(DueTimed)],
          [NoUpdate EXCEPT !.recurrence = Some("DAILY")],
          [NoUpdate EXCEPT !.recurrence = Some("NONE")],
          [NoUpdate EXCEPT !.recurrence = Some("MONTHLY"), !.due_date = Some(DueTimed)]}

\* ids a caller may name: 0, the stored ones, and one that no task has
TaskIds == {0, next_id} \cup DOMAIN tasks

Store == [tasks |-> tasks, next_id |-> next_id, clock |-> clock]

\* the call's effect on the store, and its record in `last`; no call once
\* the clock has been read `readings` times
CallWithin(readings, op, task_id, args, out) ==
    \E r \in {out} :
        /\ clock < readings
        /\ r.st.clock <= readings
        /\ tasks' = r.st.tasks
        /\ next_id' = r.st.next_id
        /\ clock' = r.st.clock
        /\ last' = [op |-> op, task_id |-> task_id, args |-> args, result |-> r.result]
        /\ UNCHANGED <<calc, inflight, db>>

Call(op, task_id, args, out) == CallWithin(MaxClock, op, task_id, args, out)

AddTask ==
    \E a \in AddInputs : Call("add", 0, a, add_task_with_recurrence(Store, a))

\* every update of a stored task, and three kinds of update of an id that
\* names none
UpdateCalls ==
    ((DOMAIN tasks) \X UpdateInputs)
    \cup ((TaskIds \ (DOMAIN tasks))
             \X {[NoUpdate EXCEPT !.title = Some(TReview)],
                 [NoUpdate EXCEPT !.title = Some(TBlank)],
                 [NoUpdate EXCEPT !.recurrence = Some("DAILY")]})

UpdateTask ==
    \E c \in UpdateCalls :
        Call("update", c[1], c[2], update_task_with_recurrence(Store, c[1], c[2]))

DeleteTask ==
    \E task_id \in TaskIds :
        Call("delete", task_id, None, delete_task(Store, task_id))

ToggleTask ==
    \E task_id \in TaskIds :
        Call("toggle", task_id, None, toggle_task_completion(Store, task_id))

CompleteTask ==
    \E task_id \in TaskIds :
        Call("complete", task_id, None, complete_task(Store, task_id))

\* no call of the calculator harness
NoCall == [state |-> "idle"]

\* the tasks table with no row, and no uuid handed out yet
EmptyTable == [rows |-> << >>, issued |-> 0]

\* the two callers of the concurrent runs, and a caller that is in no call
Callers == {"c1", "c2"}
NotCalling == [pc |-> "idle"]

\* the state after get_task_store() has made the store: empty, ids from 1
Init ==
    /\ calc = NoCall
    /\ tasks = << >>
    /\ next_id = 1
    /\ clock = 0
    /\ last = [op |-> "none"]
    /\ inflight = [c \in Callers |-> NotCalling]
    /\ db = EmptyTable

Next == AddTask \/ UpdateTask \/ DeleteTask \/ ToggleTask \/ CompleteTask

Spec == Init /\ [][Next]_vars

----------------------------------------------------------------------------
(* Properties of the console application.  `last` in the state after a     *)
(* step names the call the step made; the unprimed store is the store the  *)
(* call found.                                                             *)

\* the step is a call of complete_task on a stored task
Completes(task_id) ==
    /\ last'.op = "complete"
    /\ last'.task_id = task_id
    /\ task_id \in DOMAIN tasks

NextDue(task) == calculate_next_occurrence(task.due_date.v, task.recurrence)

C2_CompletionAtomic ==
    [][\A task_id \in DOMAIN tasks :
          (Completes(task_id) /\ tasks[task_id].recurrence # "NONE"
             /\ ~last'.result.ok)
          => /\ task_id \in DOMAIN tasks'
             /\ tasks'[task_id].completed = tasks[task_id].completed
             /\ tasks'[task_id].updated_at = tasks[task_id].updated_at]_vars

\* the step is a create or an update that asks for a rule and has no due
\* date to go with it
RecurrenceWithoutDueDate ==
    \/ /\ last'.op = "add"
       /\ last'.args.recurrence # "NONE"
       /\ ~last'.args.due_date.some
    \/ /\ last'.op = "update"
       /\ last'.task_id \in DOMAIN tasks
       /\ last'.args.recurrence.some
       /\ last'.args.recurrence.v # "NONE"
       /\ ~last'.args.due_date.some
       /\ ~tasks[last'.task_id].due_date.some

\* C5: a create with a rule other than NONE and no due date, and an update
\* that sets such a rule when neither the update nor the stored task has a
\* due date, fail with ValidationError and leave the store as it was: no
\* task created, no field of any task changed, updated_at included.
C5_RecurrenceNeedsDueDate ==
    [][RecurrenceWithoutDueDate
          => /\ ~last'.result.ok
             /\ last'.result.error = "ValidationError"
             /\ tasks' = tasks
             /\ next_id' = next_id]_vars

\* an update asking for DAILY on a stored task without a due date was refused
C5_Witness ==
    /\ last.op = "update"
    /\ last.task_id \in DOMAIN tasks
    /\ last.args.recurrence = Some("DAILY")
    /\ ~tasks[last.task_id].due_date.some
    /\ tasks[last.task_id].recurrence = "NONE"
    /\ ~tasks[last.task_id].updated_at.some
    /\ ~last.result.ok
    /\ last.result.message = "Recurring tasks must have a due date"

\* C7: complete_task on a task with the rule NONE marks it completed and
\* returns (the completed task, None); it creates no task, the number of
\* stored tasks is the same and every other task is as it was.
C7_NonRecurringCompletion ==
    [][\A task_id \in DOMAIN tasks :
          (Completes(task_id) /\ tasks[task_id].recurrence = "NONE")
          => /\ last'.result.ok
             /\ ~last'.result.value.new_task.some
             /\ DOMAIN tasks' = DOMAIN tasks
             /\ next_id' = next_id
             /\ tasks'[task_id].completed
             /\ last'.result.value.completed_task = tasks'[task_id]
             /\ \A k \in DOMAIN tasks \ {task_id} : tasks'[k] = tasks[k]]_vars

\* a non-recurring task completed next to another stored task
C7_Witness ==
    /\ last.op = "complete"
    /\ last.result.ok
    /\ ~last.result.value.new_task.some
    /\ last.result.value.completed_task.recurrence = "NONE"
    /\ Cardinality(DOMAIN tasks) = 2
    /\ tasks[last.task_id].completed
    /\ \E k \in DOMAIN tasks : ~tasks[k].completed

Updates(task_id) ==
    /\ last'.op = "update"
    /\ last'.task_id = task_id
    /\ task_id \in DOMAIN tasks

\* C20: an update_task_with_recurrence call that returns changes, in the
\* task it names, exactly the fields it was given (title and description
\* stripped, tags normalised) and updated_at, which gets a new stamp; the
\* fields it was not given, created_at and the id keep their values; no
\* other task is changed, none is added or removed.  A call that raises
\* changes nothing.
C20_UpdateOnlyGivenFields ==
    [][\A task_id \in DOMAIN tasks :
          Updates(task_id) =>
              IF last'.result.ok
              THEN LET u == last'.args
                       old == tasks[task_id]
                       new == tasks'[task_id]
                   IN  /\ DOMAIN tasks' = DOMAIN tasks
                       /\ next_id' = next_id
                       /\ \A k \in DOMAIN tasks \ {task_id} : tasks'[k] = tasks[k]
                       /\ last'.result.value = new
                       /\ new.id = old.id
                       /\ new.created_at = old.created_at
                       /\ new.updated_at = Some(clock)
                       /\ new.updated_at # old.updated_at
                       /\ new.title = IF u.title.some THEN strip(u.title.v)
                                      ELSE old.title
                       /\ new.description = IF u.description.some
                                            THEN strip(u.description.v)
                                            ELSE old.description
                       /\ new.completed = IF u.completed.some THEN u.completed.v
                                          ELSE old.completed
                       /\ new.priority = IF u.priority.some THEN u.priority.v
                                         ELSE old.priority
                       /\ new.tags = IF u.tags.some
                                     THEN validate_and_process_tags(u.tags.v).value
                                     ELSE old.tags
                       /\ new.due_date = IF u.due_date.some THEN u.due_date
                                         ELSE old.due_date
                       /\ new.recurrence = IF u.recurrence.some THEN u.recurrence.v
                                           ELSE old.recurrence
              ELSE tasks' = tasks /\ next_id' = next_id]_vars

\* the daily standup given a description, a priority and a tag: it is still
\* open, daily and due 2025-01-31 09:30 under its title, and the other task
\* is there
C20_Witness ==
    /\ last.op = "update"
    /\ last.result.ok
    /\ last.task_id \in DOMAIN tasks
    /\ last.args.description = Some(DNotes)
    /\ ~last.args.completed.some
    /\ Cardinality(DOMAIN tasks) = 2
    /\ ~tasks[last.task_id].completed
    /\ tasks[last.task_id].description = strip(DNotes)
    /\ tasks[last.task_id].priority = "HIGH"
    /\ tasks[last.task_id].title = strip(TStandup)
    /\ tasks[last.task_id].due_date = Some(DueTimed)
    /\ tasks[last.task_id].recurrence = "DAILY"

\* C21: for every id that no stored task has, zero included,
\* update_task_with_recurrence and complete_task raise TaskNotFoundError and
\* leave the store as it was.
C21_UnknownIdNotFound ==
    [][(/\ last'.op \in {"update", "complete"}
        /\ last'.task_id \notin DOMAIN tasks)
       => /\ ~last'.result.ok
          /\ last'.result.error = "TaskNotFoundError"
          /\ tasks' = tasks
          /\ next_id' = next_id]_vars

\* the step is a call of delete_task that deleted the task task_id
Deletes(task_id) ==
    /\ last'.op = "delete"
    /\ last'.task_id = task_id
    /\ last'.result.ok

\* C17: a task's id is stable for the task's lifetime: whatever call is
\* made (add, update, complete, toggle, or delete of another task), an id
\* that designated a stored task before the call designates the same task,
\* the one created at the same reading of the clock, after it.
C17_IdStable ==
    [][\A k \in DOMAIN tasks :
          ~Deletes(k) =>
              /\ k \in DOMAIN tasks'
              /\ tasks'[k].id = k
              /\ tasks'[k].created_at = tasks[k].created_at]_vars

----------------------------------------------------------------------------
(* Chains of recurring instances: one recurring task, then completions and *)
(* toggles of it and of its successors.                                    *)

\* datetime.now() readings in one chain: one for the first task and two for
\* each of three completions that make a successor
MaxChainClock == 7

\* a daily task due on the last day but one that a datetime holds
DueLastButOne == Datetime(MAXYEAR, 12, 30, 0, 0, 0)

ChainInputs ==
    {AddInput(TStandup, DEmpty, "NONE", {}, Some(DueTimed), r) :
        r \in {"DAILY", "WEEKLY", "MONTHLY"}}
    \cup {AddInput(TReview, DNotes, "HIGH", {GWork}, Some(DueLastButOne), "DAILY")}

ChainAdd ==
    /\ DOMAIN tasks = {}
    /\ \E a \in ChainInputs :
          CallWithin(MaxChainClock, "add", 0, a, add_task_with_recurrence(Store, a))

ChainComplete ==
    \E task_id \in DOMAIN tasks :
        CallWithin(MaxChainClock, "complete", task_id, None,
                   complete_task(Store, task_id))

ChainToggle ==
    \E task_id \in DOMAIN tasks :
        CallWithin(MaxChainClock, "toggle", task_id, None,
                   toggle_task_completion(Store, task_id))

NextChain == ChainAdd \/ ChainComplete \/ ChainToggle

SpecChain == Init /\ [][NextChain]_vars

\* the last call was a complete_task that returned a successor
Spawned ==
    /\ last.op = "complete"
    /\ last.result.ok
    /\ last.result.value.new_task.some

Toggles(task_id) ==
    /\ last'.op = "toggle"
    /\ last'.task_id = task_id
    /\ task_id \in DOMAIN tasks

\* C16: toggle_task_completion(id) flips the task's completed flag and does
\* nothing else to the set of tasks: no task is added or removed (toggling a
\* recurring task to complete makes no successor), every other task, a
\* successor spawned earlier included, is as it was, the task's other fields
\* but updated_at keep their values, and a second toggle in a row restores
\* the completed value the first one changed.
C16_ToggleOnlyFlips ==
    [][\A task_id \in DOMAIN tasks :
          Toggles(task_id) =>
              /\ last'.result.ok
              /\ DOMAIN tasks' = DOMAIN tasks
              /\ next_id' = next_id
              /\ \A k \in DOMAIN tasks \ {task_id} : tasks'[k] = tasks[k]
              /\ tasks'[task_id].completed = ~tasks[task_id].completed
              /\ tasks'[task_id] =
                    [tasks[task_id] EXCEPT
                        !.completed = ~@,
                        !.updated_at = tasks'[task_id].updated_at]
              /\ last'.result.value = tasks'[task_id]
              /\ (last.op = "toggle" /\ last.task_id = task_id /\ last.result.ok)
                    => tasks'[task_id].completed = ~last.result.value.completed]_vars

\* the daily task was completed and has its successor; toggled to incomplete
\* and back, it is completed again and the successor is still the only other
\* task, open and due the day after
C16_Witness ==
    /\ last.op = "toggle"
    /\ last.task_id = 1
    /\ last.result.ok
    /\ DOMAIN tasks = {1, 2}
    /\ tasks[1].recurrence = "DAILY"
    /\ tasks[1].completed
    /\ tasks[1].updated_at = Some(4)
    /\ ~tasks[2].completed
    /\ tasks[2].due_date = Some(NextDue(tasks[1]).value)

\* C24: complete_task on a task that is already completed adds no task, so
\* that one recurring task instance has at most one successor after any
\* sequence of complete_task and toggle calls.
C24_CompletedSpawnsNothing ==
    [][\A task_id \in DOMAIN tasks :
          (Completes(task_id) /\ tasks[task_id].completed)
          => DOMAIN tasks' = DOMAIN tasks]_vars

----------------------------------------------------------------------------
(* complete_task statement by statement, for two callers that share the    *)
(* store: store.get, store.mark_complete, then the successor.              *)

\* datetime.now() readings in one concurrent run: one for the task and two
\* for each of two completions
MaxConcClock == 5

\* tasks stored before the callers begin
MaxConcTasks == 2

ConcInputs ==
    {AddInput(TStandup, DEmpty, "NONE", {}, Some(DueTimed), "DAILY"),
     AddInput(TReview, DNotes, "HIGH", {GWork}, Some(DueTimed), "NONE"),
     AddInput(TStandup, DEmpty, "NONE", {}, Some(DueLast), "DAILY")}

ConcAdd ==
    /\ Cardinality(DOMAIN tasks) < MaxConcTasks
    /\ \A c \in Callers : inflight[c].pc = "idle"
    /\ \E a \in ConcInputs :
          /\ CallWithin(MaxConcClock, "add", 0, a, add_task_with_recurrence(Store, a))
          /\ last'.result.ok

InFlight(c) == inflight[c].pc \in {"got", "marked"}

ConcStep(c, call, st) ==
    /\ st.clock <= MaxConcClock
    /\ inflight' = [inflight EXCEPT ![c] = call]
    /\ tasks' = st.tasks
    /\ next_id' = st.next_id
    /\ clock' = st.clock
    /\ UNCHANGED <<calc, last, db>>

\* task = store.get(task_id); overlaps records whether the other caller was
\* inside complete_task for the same id at that moment
ConcGet(c) ==
    /\ inflight[c].pc = "idle"
    /\ \E task_id \in {next_id} \cup DOMAIN tasks :
          LET got == store_get(Store, task_id)
              overlaps == \E o \in Callers \ {c} :
                              InFlight(o) /\ inflight[o].task_id = task_id
          IN  ConcStep(c, IF got.ok
                          THEN [pc |-> "got", task_id |-> task_id,
                                overlaps |-> overlaps]
                          ELSE [pc |-> "returned", task_id |-> task_id,
                                overlaps |-> overlaps, result |-> got],
                       Store)

\* completed_task = store.mark_complete(task_id)
ConcMark(c) ==
    /\ inflight[c].pc = "got"
    /\ LET marked == store_mark_complete(Store, inflight[c].task_id)
       IN  ConcStep(c, IF marked.result.ok
                       THEN [inflight[c] EXCEPT !.pc = "marked"]
                       ELSE [pc |-> "returned", task_id |-> inflight[c].task_id,
                             overlaps |-> inflight[c].overlaps,
                             result |-> marked.result],
                    marked.st)

\* the rest of complete_task: the rule and the due date of the task, the next
\* occurrence, store.add and the return
ConcCreate(c) ==
    /\ inflight[c].pc = "marked"
    /\ LET task == tasks[inflight[c].task_id]
           next_due == calculate_next_occurrence(task.due_date.v, task.recurrence)
           added == store_add(Store,
                        [title |-> task.title, description |-> task.description,
                         priority |-> task.priority, tags |-> task.tags,
                         due_date |-> Some(next_due.value),
                         recurrence |-> task.recurrence])
           returned(result) == [pc |-> "returned", task_id |-> inflight[c].task_id,
                                overlaps |-> inflight[c].overlaps,
                                result |-> result]
       IN  IF task.recurrence # "NONE" /\ task.due_date.some
           THEN IF ~next_due.ok THEN ConcStep(c, returned(next_due), Store)
                ELSE ConcStep(c, returned(IF added.result.ok
                                          THEN Ok([completed_task |-> task,
                                                   new_task |-> Some(added.result.value)])
                                          ELSE added.result),
                              added.st)
           ELSE ConcStep(c, returned(Ok([completed_task |-> task, new_task |-> None])),
                         Store)

NextConc == ConcAdd \/ \E c \in Callers : ConcGet(c) \/ ConcMark(c) \/ ConcCreate(c)

SpecConc == Init /\ [][NextConc]_vars

\* C3: when two calls of complete_task for the same recurring task id are in
\* flight at once, their get, mark_complete and add steps interleaved in
\* any order, at most one of them creates a successor.
C3_AtMostOneSuccessor ==
    \A c1, c2 \in Callers :
        (/\ c1 # c2
         /\ inflight[c1].pc = "returned" /\ inflight[c2].pc = "returned"
         /\ inflight[c1].task_id = inflight[c2].task_id
         /\ inflight[c2].overlaps
         /\ inflight[c1].result.ok /\ inflight[c2].result.ok)
        => ~(/\ inflight[c1].result.value.new_task.some
             /\ inflight[c2].result.value.new_task.some)

----------------------------------------------------------------------------
(* Web API (Phase02 routes/tasks.py) over the tasks table.  A request      *)
(* holds the token's subject, the user_id of the path and the body; the    *)
(* handler answers with a status code.                                     *)

WebTitleMax == 255
WebDescriptionMax == 1000

\* RecurrencePattern of the web models
RecurrencePattern == Recurrences \cup {"YEARLY"}

\* rows of the users table, and the subjects that hold a token
Users == {"alice", "bob"}
Subjects == Users \cup {"carol"}

Http(table, code, detail) ==
    [db |-> table, now |-> clock,
     result |-> [ok |-> FALSE, status |-> code, detail |-> detail]]

Served(table, now, code, value) ==
    [db |-> table, now |-> now,
     result |-> [ok |-> TRUE, status |-> code, value |-> value]]

\* Task(...): id from uuid4, created_at and updated_at from utcnow
NewRow(table, now, user_id, f) ==
    [id |-> table.issued + 1, user_id |-> user_id, title |-> f.title,
     description |-> f.description, status |-> "todo", priority |-> f.priority,
     due_date |-> f.due_date, recurrence_pattern |-> f.recurrence_pattern,
     tags |-> f.tags, created_at |-> now, updated_at |-> now + 1,
     completed_at |-> None]

\* session.add of a new row and session.commit
Insert(table, row) ==
    [rows |-> Put(table.rows, row.id, row), issued |-> table.issued + 1]

\* TaskCreate: what the request body must satisfy
TaskCreateValid(body) ==
    /\ len(body.title) >= 1
    /\ len(body.title) <= WebTitleMax
    /\ body.description.some => len(body.description.v) <= WebDescriptionMax

\* TaskUpdate: every field optional
TaskUpdateValid(body) ==
    /\ body.title.some => (len(body.title.v) >= 1 /\ len(body.title.v) <= WebTitleMax)
    /\ body.description.some => len(body.description.v) <= WebDescriptionMax

web_create_task(table, now, sub, user_id, body) ==
    IF ~TaskCreateValid(body) THEN Http(table, 422, "Validation error")
    ELSE IF sub # user_id
         THEN Http(table, 403, "Not authorized to create tasks for this user")
    ELSE IF user_id \notin Users THEN Http(table, 404, "User not found")
    ELSE LET db_task == NewRow(table, now, user_id, body)
         IN  Served(Insert(table, db_task), now + 2, 201, db_task)

\* the row a handler works on, or the answer that ends the request
FindTask(table, sub, user_id, task_id, detail) ==
    IF sub # user_id THEN Http(table, 403, detail)
    ELSE IF task_id \notin DOMAIN table.rows THEN Http(table, 404, "Task not found")
    ELSE IF table.rows[task_id].user_id # user_id THEN Http(table, 403, detail)
    ELSE Served(table, clock, 200, table.rows[task_id])

\* setattr(db_task, field, value) for every field the body sets
SetFields(row, body) ==
    [row EXCEPT
       !.title = IF body.title.some THEN body.title.v ELSE @,
       !.description = IF body.description.some THEN body.description ELSE @,
       !.status = IF body.status.some THEN body.status.v ELSE @,
       !.priority = IF body.priority.some THEN body.priority.v ELSE @,
       !.due_date = IF body.due_date.some THEN body.due_date.v ELSE @,
       !.recurrence_pattern =
           IF body.recurrence_pattern.some THEN body.recurrence_pattern.v ELSE @,
       !.tags = IF body.tags.some THEN body.tags.v ELSE @]

web_update_task(table, now, sub, user_id, task_id, body) ==
    LET found == FindTask(table, sub, user_id, task_id,
                          "Not authorized to update this task")
    IN  IF ~TaskUpdateValid(body) THEN Http(table, 422, "Validation error")
        ELSE IF ~found.result.ok THEN found
        ELSE LET db_task == SetFields(found.result.value, body)
             IN  Served([table EXCEPT !.rows = Put(table.rows, task_id, db_task)],
                        now, 200, db_task)

web_delete_task(table, now, sub, user_id, task_id) ==
    LET found == FindTask(table, sub, user_id, task_id,
                          "Not authorized to delete this task")
    IN  IF ~found.result.ok THEN found
        ELSE Served([table EXCEPT !.rows =
                        [k \in DOMAIN table.rows \ {task_id} |-> table.rows[k]]],
                    now, 204, None)

\* the next due date of the web API: a month is 30 days, a year 365
web_next_due_date(due_date, recurrence_pattern) ==
    IF recurrence_pattern = "DAILY" THEN PlusDays(due_date, 1)
    ELSE IF recurrence_pattern = "WEEKLY" THEN PlusDays(due_date, 7)
    ELSE IF recurrence_pattern = "MONTHLY" THEN PlusDays(due_date, 30)
    ELSE PlusDays(due_date, 365)

\* due_date.replace(year, month, day): ValueError outside the calendar
Replace(dt, y, m, d) ==
    IF y > MAXYEAR THEN Err("ValueError", "year is out of range")
    ELSE Ok([dt EXCEPT !.year = y, !.month = m, !.day = d])

\* the next due date of the chat tool complete_task
tool_next_due_date(due_date, recurrence_pattern) ==
    IF recurrence_pattern = "DAILY" THEN PlusDays(due_date, 1)
    ELSE IF recurrence_pattern = "WEEKLY" THEN PlusDays(due_date, 7)
    ELSE IF recurrence_pattern = "MONTHLY"
         THEN LET month0 == due_date.month + 1
                  year == IF month0 > 12 THEN due_date.year + 1 ELSE due_date.year
                  month == IF month0 > 12 THEN 1 ELSE month0
                  max_day == DaysInMonth(year, month)
              IN  Replace(due_date, year, month, Min(due_date.day, max_day))
    ELSE IF recurrence_pattern = "YEARLY"
         THEN LET year == due_date.year + 1
                  max_day == DaysInMonth(year, due_date.month)
              IN  Replace(due_date, year, due_date.month, Min(due_date.day, max_day))
    ELSE Ok(due_date)

web_toggle_task_completion(table, now, sub, user_id, task_id, completed) ==
    LET found == FindTask(table, sub, user_id, task_id,
                          "Not authorized to update this task")
        row == found.result.value
        done == [row EXCEPT !.status = "completed", !.completed_at = Some(now)]
        todo == [row EXCEPT !.status = "todo", !.completed_at = None]
        next_due_date == IF row.due_date.some
                         THEN web_next_due_date(row.due_date.v, row.recurrence_pattern)
                         ELSE Ok(None)
        marked == [table EXCEPT !.rows = Put(table.rows, task_id, done)]
        new_recurring_task ==
            NewRow(marked, now + 1, row.user_id,
                   [title |-> row.title, description |-> row.description,
                    priority |-> row.priority,
                    due_date |-> IF row.due_date.some THEN Some(next_due_date.value)
                                 ELSE None,
                    recurrence_pattern |-> row.recurrence_pattern,
                    tags |-> row.tags])
    IN  IF ~found.result.ok THEN found
        ELSE IF ~completed
             THEN Served([table EXCEPT !.rows = Put(table.rows, task_id, todo)],
                         now, 200, todo)
        ELSE IF row.recurrence_pattern = "NONE" THEN Served(marked, now + 1, 200, done)
        ELSE IF ~next_due_date.ok
             THEN \* raised before session.commit: nothing is written
                  Http(table, 500, next_due_date.message)
        ELSE Served(Insert(marked, new_recurring_task), now + 3, 200, done)

\* utcnow() readings in one run of the web API: two for each row made and
\* one for each completion
MaxWebClock == 5

WebBody(t, due, r) ==
    [title |-> t, description |-> None, priority |-> "NONE", due_date |-> due,
     recurrence_pattern |-> r, tags |-> {}]

CreateBodies ==
    {WebBody(TStandup, None, "NONE"), WebBody(TStandup, None, "DAILY"),
     WebBody(TStandup, Some(DueTimed), "DAILY"),
     WebBody(TStandup, Some(DueLast), "YEARLY"),
     WebBody(DEmpty, Some(DueTimed), "MONTHLY")}

NoFields ==
    [title |-> None, description |-> None, status |-> None, priority |-> None,
     due_date |-> None, recurrence_pattern |-> None, tags |-> None]

\* due_date: null in the body of an update clears the due date
UpdateBodies ==
    {[NoFields EXCEPT !.recurrence_pattern = Some("WEEKLY")],
     [NoFields EXCEPT !.due_date = Some(None)],
     [NoFields EXCEPT !.title = Some(TReview), !.due_date = Some(Some(DueTimed))],
     [NoFields EXCEPT !.title = Some(DEmpty)]}

\* the subject of the token and the user_id of the path
Requests == {<<"alice", "alice">>, <<"bob", "bob">>, <<"alice", "bob">>,
             <<"carol", "carol">>}

\* requests about one task: only create_task looks the user up
TaskRequests == Requests \ {<<"carol", "carol">>}

\* ids a request may name: the rows, and one that names none
RowIds == {db.issued + 1} \cup DOMAIN db.rows

Answer(op, task_id, body, out) ==
    \E r \in {out} :
        /\ clock < MaxWebClock
        /\ r.now <= MaxWebClock
        /\ db' = r.db
        /\ clock' = r.now
        /\ last' = [op |-> op, task_id |-> task_id, args |-> body, result |-> r.result]
        /\ UNCHANGED <<calc, tasks, next_id, inflight>>

WebCreate ==
    \E q \in Requests, body \in CreateBodies :
        Answer("create_task", 0, body, web_create_task(db, clock, q[1], q[2], body))

WebUpdate ==
    \E q \in TaskRequests, task_id \in RowIds, body \in UpdateBodies :
        Answer("update_task", task_id, body,
               web_update_task(db, clock, q[1], q[2], task_id, body))

WebDelete ==
    \E q \in TaskRequests, task_id \in RowIds :
        Answer("delete_task", task_id, None,
               web_delete_task(db, clock, q[1], q[2], task_id))

WebToggle ==
    \E q \in TaskRequests, task_id \in RowIds, completed \in BOOLEAN :
        Answer("toggle_task_completion", task_id, Some(completed),
               web_toggle_task_completion(db, clock, q[1], q[2], task_id, completed))

NextWeb == WebCreate \/ WebUpdate \/ WebDelete \/ WebToggle

SpecWeb == Init /\ [][NextWeb]_vars

\* C4: after any sequence of create, update, complete, toggle and delete,
\* every stored task that has a rule other than NONE has a due date, in the
\* store of the console application and in the tasks table of the web API.
C4_RecurringHasDueDate ==
    /\ \A k \in DOMAIN tasks :
          tasks[k].recurrence # "NONE" => tasks[k].due_date.some
    /\ \A k \in DOMAIN db.rows :
          db.rows[k].recurrence_pattern # "NONE" => db.rows[k].due_date.some

\* the step is a toggle_task_completion request with completed = true that
\* the web API answered with 200, for the row task_id
WebCompletes(task_id) ==
    /\ last'.op = "toggle_task_completion"
    /\ last'.task_id = task_id
    /\ last'.args = Some(TRUE)
    /\ last'.result.ok
    /\ task_id \in DOMAIN db.rows

\* C19: completing a task that has a rule other than NONE and no due date
\* marks it completed and creates no task, in the service of the console
\* application (result (completed_task, None)) and in the completion route
\* of the web API.
C19_NoDueDateNoSuccessor ==
    [][/\ \A task_id \in DOMAIN tasks :
             (/\ Completes(task_id)
              /\ tasks[task_id].recurrence # "NONE"
              /\ ~tasks[task_id].due_date.some)
             => /\ last'.result.ok
                /\ ~last'.result.value.new_task.some
                /\ tasks'[task_id].completed
                /\ DOMAIN tasks' = DOMAIN tasks
       /\ \A task_id \in DOMAIN db.rows :
             (/\ WebCompletes(task_id)
              /\ db.rows[task_id].recurrence_pattern # "NONE"
              /\ ~db.rows[task_id].due_date.some)
             => /\ db'.rows[task_id].status = "completed"
                /\ DOMAIN db'.rows = DOMAIN db.rows]_vars

----------------------------------------------------------------------------
(* Reminders: tasks due around two moments of 2025-01-31, completed in the *)
(* three ways the service has, and check_reminders at those moments.       *)

\* timestamps the store stamps in one run with reminders
MaxRemindClock == 3

\* what datetime.now() reads in check_reminders: half past eight in the
\* morning, and half an hour before midnight
NowMorning == Datetime(2025, 1, 31, 8, 30, 0)
NowNight == Datetime(2025, 1, 31, 23, 30, 0)
NowInputs == {NowMorning, NowNight}

\* a second before NowMorning, NowMorning, 60 minutes later, a second after
\* that; midnight of the day and of the next day
RemindDues ==
    {Datetime(2025, 1, 31, 8, 29, 59), NowMorning, DueTimed,
     Datetime(2025, 1, 31, 9, 30, 1),
     Datetime(2025, 1, 31, 0, 0, 0), Datetime(2025, 2, 1, 0, 0, 0)}

RemindInputs ==
    {AddInput(TStandup, DEmpty, "NONE", {}, Some(d), "NONE") : d \in RemindDues}
    \cup {AddInput(TStandup, DEmpty, "NONE", {}, None, "NONE"),
          AddInput(TReview, DNotes, "HIGH", {GWork},
                   Some(Datetime(2025, 1, 30, 8, 45, 0)), "DAILY")}

RemindAdd ==
    \E a \in RemindInputs :
        CallWithin(MaxRemindClock, "add", 0, a, add_task_with_recurrence(Store, a))

RemindComplete ==
    \E task_id \in DOMAIN tasks :
        CallWithin(MaxRemindClock, "complete", task_id, None,
                   complete_task(Store, task_id))

RemindToggle ==
    \E task_id \in DOMAIN tasks :
        CallWithin(MaxRemindClock, "toggle", task_id, None,
                   toggle_task_completion(Store, task_id))

RemindUpdate ==
    \E task_id \in DOMAIN tasks :
        \E u \in {[NoUpdate EXCEPT !.completed = Some(TRUE)]} :
            CallWithin(MaxRemindClock, "update", task_id, u,
                       update_task_with_recurrence(Store, task_id, u))

\* check_reminders() when datetime.now() reads now
CheckReminders ==
    \E now \in NowInputs :
        \E r \in {check_reminders(Store, now)} :
            /\ tasks' = r.st.tasks
            /\ next_id' = r.st.next_id
            /\ clock' = r.st.clock
            /\ last' = [op |-> "reminders", task_id |-> 0, args |-> now,
                        result |-> r.result]
            /\ UNCHANGED <<calc, inflight, db>>

NextRemind ==
    RemindAdd \/ RemindComplete \/ RemindToggle \/ RemindUpdate \/ CheckReminders

SpecRemind == Init /\ [][NextRemind]_vars

\* the last call was check_reminders, and it returned
Reminded == last.op = "reminders" /\ last.result.ok

Listed(task, list) == \E i \in DOMAIN list : list[i] = task

\* seconds from a to b, for moments a few days apart
SecondsFrom(a, b) ==
    (ToOrdinal(b) - ToOrdinal(a)) * 86400 + SecondOfDay(b) - SecondOfDay(a)

\* the stored tasks that are not completed and have a timed due date
TimedOpen ==
    {k \in DOMAIN tasks :
        /\ ~tasks[k].completed
        /\ tasks[k].due_date.some
        /\ SecondOfDay(tasks[k].due_date.v) # 0}

C12_ReminderBoundary ==
    Reminded =>
        \A k \in TimedOpen :
            LET ahead == SecondsFrom(last.args, tasks[k].due_date.v)
                overdue == Listed(tasks[k], last.result.value.overdue_tasks)
                due_soon == Listed(tasks[k], last.result.value.due_soon_tasks)
            IN  /\ ahead = 3600 => (due_soon /\ ~overdue)
                /\ ahead = 3601 => (~due_soon /\ ~overdue)
                /\ ahead = -1 => (overdue /\ ~due_soon)

\* C13: a task whose due date has the time 00:00:00 is in neither list of
\* any check_reminders result, whether its date is past or near.
C13_DateOnlyExcluded ==
    Reminded =>
        \A list \in {last.result.value.overdue_tasks, last.result.value.due_soon_tasks} :
            \A i \in DOMAIN list :
                list[i].due_date.some => SecondOfDay(list[i].due_date.v) # 0

\* half an hour before midnight, with open tasks due at the midnight before
\* and at the midnight to come: no reminder
C13_Witness ==
    /\ Reminded
    /\ last.args = NowNight
    /\ \E i, j \in DOMAIN tasks :
          /\ ~tasks[i].completed /\ ~tasks[j].completed
          /\ tasks[i].due_date = Some(Datetime(2025, 1, 31, 0, 0, 0))
          /\ tasks[j].due_date = Some(Datetime(2025, 2, 1, 0, 0, 0))
    /\ last.result.value.overdue_count = 0
    /\ last.result.value.due_soon_count = 0

\* C14: no completed task is in either list of a check_reminders result,
\* however it was completed (complete_task, toggle, update) and even when
\* its due date is before now; every task listed is stored and not completed.
C14_CompletedExcluded ==
    Reminded =>
        /\ \A k \in DOMAIN tasks :
              tasks[k].completed =>
                  /\ ~Listed(tasks[k], last.result.value.overdue_tasks)
                  /\ ~Listed(tasks[k], last.result.value.due_soon_tasks)
        /\ \A list \in {last.result.value.overdue_tasks,
                        last.result.value.due_soon_tasks} :
              \A i \in DOMAIN list :
                  /\ ~list[i].completed
                  /\ list[i].id \in DOMAIN tasks
                  /\ tasks[list[i].id] = list[i]

\* the daily review due yesterday at 08:45 was completed by complete_task:
\* at half past eight only its successor, due at 08:45 today, is reported
C14_Witness ==
    /\ Reminded
    /\ last.args = NowMorning
    /\ DOMAIN tasks = {1, 2}
    /\ tasks[1].completed
    /\ tasks[1].due_date = Some(Datetime(2025, 1, 30, 8, 45, 0))
    /\ ~tasks[2].completed
    /\ last.result.value.overdue_tasks = << >>
    /\ last.result.value.due_soon_tasks = <<tasks[2]>>

\* C15: check_reminders is read-only: it changes no field of any task and
\* adds and removes none; overdue_count and due_soon_count are the lengths
\* of the two lists, and no task is in both.
C15_RemindersReadOnly ==
    [][last'.op = "reminders"
          => /\ tasks' = tasks
             /\ next_id' = next_id
             /\ last'.result.ok =>
                   LET result == last'.result.value
                   IN  /\ result.overdue_count = Len(result.overdue_tasks)
                       /\ result.due_soon_count = Len(result.due_soon_tasks)
                       /\ \A i \in DOMAIN result.overdue_tasks :
                             ~Listed(result.overdue_tasks[i],
                                     result.due_soon_tasks)]_vars

\* two tasks overdue and one due now, counted 2 and 1
C15_Witness ==
    /\ Reminded
    /\ Cardinality(DOMAIN tasks) = 3
    /\ last.result.value.overdue_count = 2
    /\ Len(last.result.value.overdue_tasks) = 2
    /\ last.result.value.due_soon_count = 1
    /\ last.result.value.due_soon_tasks[1].due_date = Some(NowMorning)

----------------------------------------------------------------------------
(* The command line: the `toggle` command of main.py and the Toggle Status *)
(* entry of the menu, on tasks added through the service.                  *)

\* datetime.now() readings the store stamps in one run of the command line:
\* one for a task, two for each of two completions with a successor
MaxCliClock == 5

CliInputs ==
    {AddInput(TStandup, DEmpty, "NONE", {}, Some(DueTimed), r) :
        r \in {"NONE", "DAILY", "MONTHLY"}}
    \cup {AddInput(TReview, DNotes, "HIGH", {GWork}, None, "NONE")}

CliAdd ==
    /\ Cardinality(DOMAIN tasks) < 2
    /\ \E a \in CliInputs :
          CallWithin(MaxCliClock, "add", 0, a, add_task_with_recurrence(Store, a))

CliToggle ==
    \E task_id \in TaskIds, now \in NowInputs :
        CallWithin(MaxCliClock, "toggle_task", task_id, now,
                   toggle_task(Store, task_id, now))

MenuToggle ==
    \E task_id \in TaskIds :
        CallWithin(MaxCliClock, "handle_toggle_task", task_id, None,
                   handle_toggle_task(Store, task_id))

NextCli == CliAdd \/ CliToggle \/ MenuToggle

SpecCli == Init /\ [][NextCli]_vars

\* the step is a toggle of the command line, by either handler, that named
\* a stored task and printed no error
CliToggles(task_id) ==
    /\ last'.op \in {"toggle_task", "handle_toggle_task"}
    /\ last'.task_id = task_id
    /\ task_id \in DOMAIN tasks
    /\ last'.result.ok

\* C23: a toggle of the command line makes an incomplete task complete, and
\* adds its successor when the task recurs and has a due date; it makes a
\* completed task incomplete and adds no task.
C23_CliToggleToggles ==
    [][\A task_id \in DOMAIN tasks :
          CliToggles(task_id) =>
              IF ~tasks[task_id].completed
              THEN /\ tasks'[task_id].completed
                   /\ Cardinality(DOMAIN tasks') =
                         Cardinality(DOMAIN tasks)
                         + (IF /\ tasks[task_id].recurrence # "NONE"
                               /\ tasks[task_id].due_date.some
                            THEN 1 ELSE 0)
              ELSE /\ ~tasks'[task_id].completed
                   /\ DOMAIN tasks' = DOMAIN tasks]_vars

----------------------------------------------------------------------------
(* TaskStore called directly, as the tests call it.                        *)

\* datetime.now() readings the store stamps in one run of direct calls
MaxStoreClock == 4

\* the empty title
TEmpty == Str("", 0, 0, FALSE)

StoreInputs ==
    {AddInput(t, DEmpty, "NONE", {}, None, "NONE") : t \in {TStandup, TEmpty, TLong}}
    \cup {AddInput(TStandup, DLong, "NONE", {}, None, "NONE"),
          AddInput(TReview, DNotes, "HIGH", {GWork}, Some(DueTimed), "DAILY")}

StoreUpdateInputs ==
    {[NoUpdate EXCEPT !.title = Some(t)] : t \in {TReview, TEmpty, TLong}}
    \cup {[NoUpdate EXCEPT !.description = Some(DLong)],
          [NoUpdate EXCEPT !.title = Some(TReview), !.description = Some(DLong)],
          [NoUpdate EXCEPT !.title = Some(TReview), !.description = Some(DNotes),
                           !.completed = Some(TRUE)]}

StoreAdd ==
    \E f \in StoreInputs :
        CallWithin(MaxStoreClock, "store_add", 0, f, store_add(Store, f))

StoreUpdate ==
    \E task_id \in TaskIds, u \in StoreUpdateInputs :
        CallWithin(MaxStoreClock, "store_update", task_id, u,
                   store_update(Store, task_id, u))

StoreToggle ==
    \E task_id \in TaskIds :
        CallWithin(MaxStoreClock, "store_toggle", task_id, None,
                   store_toggle(Store, task_id))

StoreMarkComplete ==
    \E task_id \in TaskIds :
        CallWithin(MaxStoreClock, "store_mark_complete", task_id, None,
                   store_mark_complete(Store, task_id))

StoreMarkIncomplete ==
    \E task_id \in TaskIds :
        CallWithin(MaxStoreClock, "store_mark_incomplete", task_id, None,
                   store_mark_incomplete(Store, task_id))

StoreDelete ==
    \E task_id \in TaskIds :
        CallWithin(MaxStoreClock, "store_delete", task_id, None,
                   store_delete(Store, task_id))

StoreClear ==
    CallWithin(MaxStoreClock, "store_clear", 0, None, store_clear(Store))

NextStore ==
    \/ StoreAdd \/ StoreUpdate \/ StoreToggle \/ StoreMarkComplete
    \/ StoreMarkIncomplete \/ StoreDelete \/ StoreClear

SpecStore == Init /\ [][NextStore]_vars

\* C27: TaskStore.update is all-or-nothing: when it raises (unknown id,
\* empty title, title over 100 characters, description over 500), no field
\* of any stored task has changed.
C27_UpdateAllOrNothing ==
    [][(last'.op = "store_update" /\ ~last'.result.ok)
       => (tasks' = tasks /\ next_id' = next_id)]_vars

\* C28: in every state the store reaches by add, update, toggle,
\* mark_complete, mark_incomplete, delete and clear, each key maps to a task
\* whose id is that key (so the stored ids are pairwise distinct) and
\* _next_id is greater than every stored id; an add that returns keeps every
\* task that was stored as it was and stores the new one under a new key.
C28_StoreIdsConsistent ==
    [][/\ \A k \in DOMAIN tasks' : tasks'[k].id = k /\ k < next_id'
       /\ \A i, j \in DOMAIN tasks' : tasks'[i].id = tasks'[j].id => i = j
       /\ (last'.op = "store_add" /\ last'.result.ok)
             => /\ \A k \in DOMAIN tasks : tasks'[k] = tasks[k]
                /\ DOMAIN tasks' = DOMAIN tasks \cup {last'.result.value.id}
                /\ last'.result.value.id \notin DOMAIN tasks]_vars

\* two tasks added, the first deleted, and a third added: the second is now
\* task 1, and the third was stored as task 2 beside it
C28_Witness ==
    /\ last.op = "store_add"
    /\ last.result.ok
    /\ last.result.value.id = 2
    /\ DOMAIN tasks = {1, 2}
    /\ next_id = 3
    /\ tasks[1].created_at = 1
    /\ tasks[2].created_at = 2

----------------------------------------------------------------------------
(* The chat tool delete_task (Phase04 mcp/tools.py) on the tasks table.    *)
(* A title or an identifier is a text whose body is its sequence of        *)
(* characters.                                                             *)

Text(chars) == Str(chars, Len(chars), 0, \E i \in DOMAIN chars : chars[i] \in {"A", "B"})

\* str.isdigit(): no character but digits, and at least one
isdigit(text) ==
    /\ Len(text.body) > 0
    /\ \A i \in DOMAIN text.body : text.body[i] \in {"0", "1"}

\* Task.title.ilike('%pattern%'): the pattern is somewhere in the title,
\* letters compared without their case
ilike(title, pattern) ==
    LET Lower(c) == IF c = "A" THEN "a" ELSE IF c = "B" THEN "b" ELSE c
    IN  \E i \in 0..(Len(title.body) - Len(pattern.body)) :
            \A j \in DOMAIN pattern.body :
                Lower(title.body[i + j]) = Lower(pattern.body[j])

\* the days, as ordinals, that the due_date filter lets through; no filter
\* for a word that is neither a keyword nor a date
DueRange(due_date, today) ==
    LET t == ToOrdinal(today)
        first == t - (today.day - 1)
        \* date.weekday(): Monday is 0
        Weekday(d) == (ToOrdinal(d) - 1) % 7
    IN  IF due_date.kind = "date"
        THEN Some([lo |-> ToOrdinal(due_date.date), hi |-> ToOrdinal(due_date.date)])
        ELSE IF due_date.word = "today" THEN Some([lo |-> t, hi |-> t])
        ELSE IF due_date.word = "tomorrow" THEN Some([lo |-> t + 1, hi |-> t + 1])
        ELSE IF due_date.word = "this_week"
             THEN Some([lo |-> t - Weekday(today), hi |-> t - Weekday(today) + 6])
        ELSE IF due_date.word = "this_month"
             THEN Some([lo |-> first,
                        hi |-> first + DaysInMonth(today.year, today.month) - 1])
        ELSE None

\* the rows the query of delete_task selects
ToolQuery(table, user_uuid, q, today) ==
    LET range == DueRange(q.due_date.v, today)
    IN  {k \in DOMAIN table.rows :
           LET row == table.rows[k]
           IN  /\ row.user_id = user_uuid
               /\ IF isdigit(q.task_identifier) /\ q.task_identifier.uuid.some
                  THEN row.id = q.task_identifier.uuid.v
                  ELSE ilike(row.title, q.task_identifier)
               /\ (q.status.some /\ q.status.v = "pending") => row.status = "todo"
               /\ (q.status.some /\ q.status.v = "completed") => row.status = "completed"
               /\ q.priority.some => row.priority = q.priority.v
               /\ (q.due_date.some /\ range.some) =>
                     /\ row.due_date.some
                     /\ ToOrdinal(row.due_date.v) >= range.v.lo
                     /\ ToOrdinal(row.due_date.v) <= range.v.hi}

\* the rows of a set of keys, in the order of the keys
RECURSIVE RowList(_, _)
RowList(table, keys) ==
    IF keys = {} THEN << >>
    ELSE LET k == CHOOSE k \in keys : \A j \in keys : k <= j
         IN  <<table.rows[k]>> \o RowList(table, keys \ {k})

ToolAnswer(table, success, message, listed) ==
    [db |-> table, now |-> clock,
     result |-> Ok([success |-> success, message |-> message, tasks |-> listed])]

\* delete_task deleting the first task found when several match
tool_delete_task_first_match(table, user_id, q, today) ==
    LET found == ToolQuery(table, user_id, q, today)
    IN  IF user_id \notin Users
        THEN ToolAnswer(table, FALSE, "Failed to delete task", << >>)
        ELSE IF found = {}
             THEN ToolAnswer(table, FALSE, "not found", << >>)
        ELSE LET task == RowList(table, found)[1]
             IN  ToolAnswer([table EXCEPT !.rows =
                                [k \in DOMAIN table.rows \ {task.id} |-> table.rows[k]]],
                            TRUE, "deleted", << >>)

\* delete_task: user_id that is no UUID raises, and the exception is
\* answered as a failure
tool_delete_task(table, user_id, q, today) ==
    LET tasks_found == ToolQuery(table, user_id, q, today)
    IN  IF user_id \notin Users
        THEN ToolAnswer(table, FALSE, "Failed to delete task", << >>)
        ELSE IF Cardinality(tasks_found) = 0
             THEN ToolAnswer(table, FALSE, "not found", << >>)
        ELSE IF Cardinality(tasks_found) > 1
             THEN ToolAnswer(table, FALSE, "Multiple tasks found",
                             RowList(table, tasks_found))
        ELSE LET task == RowList(table, tasks_found)[1]
             IN  ToolAnswer([table EXCEPT !.rows =
                                [k \in DOMAIN table.rows \ {task.id} |-> table.rows[k]]],
                            TRUE, "deleted", << >>)

\* 2025-01-31 is a Friday: the next day is in the same week, not the month
Today == Datetime(2025, 1, 31, 0, 0, 0)

ToolBodies ==
    {[WebBody(Text(<<"a", "b">>), Some(DueTimed), "NONE") EXCEPT !.priority = "HIGH"],
     WebBody(Text(<<"A", "b">>), None, "NONE"),
     WebBody(Text(<<"b", "1">>), Some(Datetime(2025, 2, 1, 9, 30, 0)), "NONE")}

\* an identifier: its text, and the UUID it parses to when it is one
Identifier(chars, uuid) == Text(chars) @@ [uuid |-> uuid]

\* the calls tried: every identifier without a filter, and the identifier
\* "b" with each filter on the due date, the status and the priority
ToolQueries ==
    LET identifiers ==
            {Identifier(c, None) : c \in {<<"a">>, <<"B">>, <<"a", "b">>, <<"1">>, << >>}}
            \cup {Identifier(<<"0", "1">>, Some(k)) : k \in 1..2}
        due_filters ==
            {None, Some([kind |-> "date", date |-> Datetime(2025, 2, 1, 0, 0, 0)])}
            \cup {Some([kind |-> "word", word |-> w]) :
                     w \in {"today", "tomorrow", "this_week", "this_month", "someday"}}
    IN  {[task_identifier |-> i, status |-> None, priority |-> None,
          due_date |-> None] : i \in identifiers}
        \cup {[task_identifier |-> Identifier(<<"b">>, None), status |-> None,
               priority |-> None, due_date |-> d] : d \in due_filters}
        \cup {[task_identifier |-> Identifier(<<"b">>, None), status |-> st,
               priority |-> pr, due_date |-> None] :
                 st \in {Some("pending"), Some("completed"), Some("done")},
                 pr \in {None, Some("HIGH")}}

ToolCreate ==
    \E user_id \in Users, body \in ToolBodies :
        Answer("create_task", 0, body,
                     web_create_task(db, clock, user_id, user_id, body))

ToolComplete ==
    \E task_id \in DOMAIN db.rows :
        Answer("toggle_task_completion", task_id, Some(TRUE),
                     web_toggle_task_completion(db, clock, db.rows[task_id].user_id,
                                                db.rows[task_id].user_id, task_id, TRUE))

ToolDelete ==
    \E user_id \in Users \cup {"not-a-uuid"}, q \in ToolQueries :
        Answer("tool_delete_task", 0, [user_id |-> user_id, q |-> q],
                     tool_delete_task(db, user_id, q, Today))

NextTool == ToolCreate \/ ToolComplete \/ ToolDelete

SpecTool == Init /\ [][NextTool]_vars

\* C30: the chat tool delete_task deletes a task only when exactly one task
\* of the calling user matches the identifier and the filters, and then
\* that task and no other; when none or several match it deletes nothing
\* and reports failure; it never deletes a task of another user.
C30_ToolDeleteExactlyOne ==
    [][last'.op = "tool_delete_task" =>
          LET user_id == last'.args.user_id
              matching == {k \in ToolQuery(db, user_id, last'.args.q, Today) :
                              db.rows[k].user_id = user_id}
          IN  /\ \A k \in DOMAIN db.rows :
                    db.rows[k].user_id # user_id =>
                        (k \in DOMAIN db'.rows /\ db'.rows[k] = db.rows[k])
              /\ IF Cardinality(matching) = 1
                 THEN /\ last'.result.value.success
                      /\ DOMAIN db'.rows = DOMAIN db.rows \ matching
                      /\ \A k \in DOMAIN db'.rows : db'.rows[k] = db.rows[k]
                 ELSE /\ ~last'.result.value.success
                      /\ db' = db]_vars

\* alice and bob each have a task whose title holds "ab"; alice asked to
\* delete "a" and her task is gone, bob's is still there
C30_Witness ==
    /\ last.op = "tool_delete_task"
    /\ last.args.user_id = "alice"
    /\ last.args.q.task_identifier = Identifier(<<"a">>, None)
    /\ last.result.value.success
    /\ Cardinality(DOMAIN db.rows) = 1
    /\ \A k \in DOMAIN db.rows :
          db.rows[k].user_id = "bob" /\ ilike(db.rows[k].title, Text(<<"a">>))

----------------------------------------------------------------------------
(* Harness of the calculator: calculate_next_occurrence on every due date  *)
(* of CalcDates with every rule, and complete_task on a task that has that *)
(* due date and that rule.                                                 *)

CalcYears == {2000, 2024, 2025, 2100, MAXYEAR}
CalcDays == {1, 15, 27, 28, 29, 30, 31}
CalcTimes == {<<0, 0, 0>>, <<9, 30, 0>>, <<23, 59, 59>>}

CalcDates ==
    { [year |-> y, month |-> m, day |-> d,
       hour |-> t[1], minute |-> t[2], second |-> t[3]] :
         y \in CalcYears, m \in 1..12, d \in CalcDays, t \in CalcTimes }

IsDatetime(dt) == dt.day <= DaysInMonth(dt.year, dt.month)

CalcReturn ==
    /\ calc.state = "called"
    /\ calc' = [state |-> "returned", due_date |-> calc.due_date,
                recurrence |-> calc.recurrence,
                result |-> calculate_next_occurrence(calc.due_date, calc.recurrence)]
    /\ UNCHANGED <<tasks, next_id, clock, last, inflight, db>>

\* a task with the harness's due date and rule
CalcAdd ==
    /\ DOMAIN tasks = {}
    /\ \E a \in {AddInput(TStandup, DEmpty, "NONE", {}, Some(calc.due_date),
                          calc.recurrence)} :
          Call("add", 0, a, add_task_with_recurrence(Store, a))

CalcComplete ==
    \E task_id \in DOMAIN tasks :
        Call("complete", task_id, None, complete_task(Store, task_id))

InitCalc ==
    /\ calc \in {[state |-> "called", due_date |-> d, recurrence |-> r] :
                    d \in {x \in CalcDates : IsDatetime(x)}, r \in Recurrences}
    /\ tasks = << >>
    /\ next_id = 1
    /\ clock = 0
    /\ last = [op |-> "none"]
    /\ inflight = [c \in Callers |-> NotCalling]
    /\ db = EmptyTable

NextCalc == CalcReturn \/ CalcAdd \/ CalcComplete

SpecCalc == InitCalc /\ [][NextCalc]_vars

----------------------------------------------------------------------------
(* Calendar arithmetic by counting days one at a time, for comparison.     *)

DayAfter(dt) ==
    IF dt.day < DaysInMonth(dt.year, dt.month) THEN [dt EXCEPT !.day = @ + 1]
    ELSE IF dt.month < 12 THEN [dt EXCEPT !.month = @ + 1, !.day = 1]
    ELSE [dt EXCEPT !.year = @ + 1, !.month = 1, !.day = 1]

RECURSIVE DaysAfter(_, _)
DaysAfter(dt, n) == IF n = 0 THEN dt ELSE DaysAfter(DayAfter(dt), n - 1)

CalcReturned(r) == calc.state = "returned" /\ calc.recurrence = r

\* C8: for every due date d, calculate_next_occurrence(d, DAILY) is d plus
\* exactly 1 day and calculate_next_occurrence(d, WEEKLY) is d plus exactly
\* 7 days, counted on the calendar across month and year ends, with the
\* time of day unchanged; where d plus the days is past the last date a
\* datetime holds there is no such date and the call returns none.
C8_DailyWeeklyAdditive ==
    \A n \in {1, 7} :
        CalcReturned(IF n = 1 THEN "DAILY" ELSE "WEEKLY") =>
            LET expected == DaysAfter(calc.due_date, n)
            IN IF expected.year <= MAXYEAR
               THEN calc.result = Ok(expected)
               ELSE ~calc.result.ok

\* a weekly task due on New Year's Eve, shortly before midnight
C8_Witness ==
    /\ CalcReturned("WEEKLY")
    /\ calc.due_date = Datetime(2025, 12, 31, 23, 59, 59)
    /\ calc.result = Ok(Datetime(2026, 1, 7, 23, 59, 59))

\* the first month after d's month
TargetMonth(d) ==
    IF d.month = 12 THEN [year |-> d.year + 1, month |-> 1]
    ELSE [year |-> d.year, month |-> d.month + 1]

\* C9: for every due date d whose following month is one a datetime can
\* hold, calculate_next_occurrence(d, MONTHLY) lies in that month, on day
\* min(d.day, days in that month), and keeps d's hour and minute.
C9_MonthlyClamped ==
    (CalcReturned("MONTHLY") /\ TargetMonth(calc.due_date).year <= MAXYEAR) =>
        LET d == calc.due_date
            t == TargetMonth(d)
        IN /\ calc.result.ok
           /\ calc.result.value.year = t.year
           /\ calc.result.value.month = t.month
           /\ calc.result.value.day = Min(d.day, DaysInMonth(t.year, t.month))
           /\ calc.result.value.hour = d.hour
           /\ calc.result.value.minute = d.minute

\* C25: calculate_next_occurrence keeps the hour, the minute and the second
\* of the due date for DAILY, WEEKLY and MONTHLY alike, so the date it
\* returns is date-only (00:00:00) exactly when the due date is.
C25_TimeOfDayPreserved ==
    \A r \in {"DAILY", "WEEKLY", "MONTHLY"} :
        (CalcReturned(r) /\ calc.result.ok) =>
            /\ calc.result.value.hour = calc.due_date.hour
            /\ calc.result.value.minute = calc.due_date.minute
            /\ calc.result.value.second = calc.due_date.second
            /\ SecondOfDay(calc.result.value) = 0 <=> SecondOfDay(calc.due_date) = 0

\* the two results are the same date, or neither is a date
SameDate(a, b) == IF a.ok /\ b.ok THEN a.value = b.value ELSE ~a.ok /\ ~b.ok

\* C26: for every due date and each of DAILY, WEEKLY and MONTHLY, the
\* completion route of the web API and the chat tool complete_task compute
\* the successor's due date that calculate_next_occurrence returns.
C26_ReschedulingAgrees ==
    \A r \in {"DAILY", "WEEKLY", "MONTHLY"} :
        CalcReturned(r) =>
            /\ SameDate(web_next_due_date(calc.due_date, r), calc.result)
            /\ SameDate(tool_next_due_date(calc.due_date, r), calc.result)

\* the due date has a next occurrence under the rule that a datetime holds
HasNext(d, r) ==
    IF r = "DAILY" THEN DaysAfter(d, 1).year <= MAXYEAR
    ELSE IF r = "WEEKLY" THEN DaysAfter(d, 7).year <= MAXYEAR
    ELSE TargetMonth(d).year <= MAXYEAR

\* C29: for DAILY, WEEKLY and MONTHLY and every due date d that has a next
\* occurrence, calculate_next_occurrence(d, rule) returns a date strictly
\* later than d; and the successor complete_task returns has a due date
\* strictly later than the completed task's and the same recurrence.
C29_StrictlyLater ==
    /\ \A r \in {"DAILY", "WEEKLY", "MONTHLY"} :
          (CalcReturned(r) /\ HasNext(calc.due_date, r)) =>
              /\ calc.result.ok
              /\ Before(calc.due_date, calc.result.value)
    /\ (last.op = "complete" /\ last.result.ok /\ last.result.value.new_task.some) =>
          /\ Before(last.result.value.completed_task.due_date.v,
                    last.result.value.new_task.v.due_date.v)
          /\ last.result.value.new_task.v.recurrence =
                last.result.value.completed_task.recurrence

NoneMessage == "Cannot calculate next occurrence for non-recurring task"

\* C10: calculate_next_occurrence with rule NONE raises ValueError for every
\* due date and returns no date, and no call of complete_task ends in that
\* error, whatever the rule and the due date of the task it completes.
C10_NoneRaises ==
    /\ CalcReturned("NONE") => calc.result = Err("ValueError", NoneMessage)
    /\ last.op = "complete" =>
          (last.result.ok \/ last.result.message # NoneMessage)

\* the calculator has refused NONE, and complete_task has completed a task
\* that has a due date and the rule NONE
C10_Witness ==
    /\ CalcReturned("NONE")
    /\ ~calc.result.ok
    /\ last.op = "complete"
    /\ last.result.ok
    /\ last.result.value.completed_task.recurrence = "NONE"
    /\ last.result.value.completed_task.due_date.some
    /\ ~last.result.value.new_task.some

=============================================================================
